---- MODULE Spec2Model ----
(***************************************************************************)
(* Model of the Lox scanner of src/lox.py: ErrorHandler, Token, Scanner.   *)
(*                                                                         *)
(* A source text is a sequence of one-character strings; Python's          *)
(* zero-based index source[i] is src[i + 1] here, and the slice            *)
(* source[a:b] is Slice(src, a, b).  One scan_tokens call is a run of      *)
(* ScanStep actions (one loop iteration each, the whole of _scan_token)    *)
(* closed by ReturnTokens (the EOF append and the return).  An index past   *)
(* the end of the source text raises IndexError: raised records it, and    *)
(* nothing after the raise is executed.  The driver (_run, run_file,       *)
(* run_prompt) scans each of its texts with a Scanner of its own.          *)
(***************************************************************************)
EXTENDS Integers, Sequences, FiniteSets, TLC

VARIABLES source, tokens, start, current, line, errors, had_error, raised,
          pc, calls, returned, main_mode, stdin, read, results, sys_exit

\* the state of the driver: how main was started, the texts it will read, how
\* many it has read, what _run returned for each, and the sys.exit calls made
driver == <<main_mode, stdin, read, results, sys_exit>>

vars ==
    <<source, tokens, start, current, line, errors, had_error, raised,
      pc, calls, returned, driver>>

(***************************************************************************)
(* Bounds of the model.                                                    *)
(***************************************************************************)
MaxLen == 3        \* longest source text over the whole Alphabet
MaxOpLen == 4      \* longest source text over OpAlphabet
MaxStrLen == 5     \* longest source text over StrAlphabet
MaxNumLen == 5     \* longest source text over NumAlphabet
MaxIdentLen == 4   \* longest source text over IdentAlphabet
MaxCommentLen == 5 \* longest source text over CommentAlphabet
MaxCalls == 2      \* scan_tokens calls made on one Scanner
MaxWsLen == 3      \* longest source text over WsAlphabet
MaxInsert == 2     \* most whitespace characters inserted at one position
MaxLiveLen == 2    \* longest source text over LiveAlphabet

Alphabet ==
    {"(", ".", "!", "=", "<", ">", "/", " ", "\n", "\"", "\\", "1", "o", "r", "_", "@"}
OpAlphabet == {"!", "=", "<", ">", " ", "1"}
StrAlphabet == {"\"", "\\", "\n", "o", "@"}
NumAlphabet == {"1", "2", ".", "o", " "}
IdentAlphabet == {"i", "f", "o", "r", "_", "1", " "}
CommentAlphabet == {"/", "\n", "\"", "1", "@"}
WsAlphabet == {"/", "1", ".", "=", "o", "\n", "\""}
LiveAlphabet == {" ", "/", "\"", "\n", "1", ".", "o", "@"}

Strings(A, n) == UNION {[1..k -> A] : k \in 0..n}

(***************************************************************************)
(* Python helpers.                                                         *)
(***************************************************************************)
\* source[a:b] for 0 <= a, b <= len(source)
Slice(src, a, b) == SubSeq(src, a + 1, b)

\* the character '\0' that _peek and _peek_next return at the end of input
NUL == "\\0"

\* the literal None
None == [kind |-> "None"]
\* a str value
Str(s) == [kind |-> "str", value |-> s]

(***************************************************************************)
(* Character classes.                                                      *)
(***************************************************************************)
Digits == {"0", "1", "2", "3", "4", "5", "6", "7", "8", "9"}

AsciiLetters ==
    {"a", "b", "c", "d", "e", "f", "g", "h", "i", "j", "k", "l", "m",
     "n", "o", "p", "q", "r", "s", "t", "u", "v", "w", "x", "y", "z",
     "A", "B", "C", "D", "E", "F", "G", "H", "I", "J", "K", "L", "M",
     "N", "O", "P", "Q", "R", "S", "T", "U", "V", "W", "X", "Y", "Z"}

IsAsciiDigit(char) == char \in Digits

\* _is_ascii_alpha without the underscore
IsAsciiAlphaNoUnderscore(char) == char \in AsciiLetters

IsAsciiAlpha(char) == char \in AsciiLetters \cup {"_"}

\* _is_ascii_alphanum that accepts no digit
IsAsciiAlphanumNoDigit(char) == IsAsciiAlpha(char)

IsAsciiAlphanum(char) == IsAsciiAlpha(char) \/ IsAsciiDigit(char)

(***************************************************************************)
(* Static tables of Scanner.                                               *)
(***************************************************************************)
SINGLE_CHAR_TOKENS ==
    [c \in {"(", ")", "{", "}", ",", ".", "-", "+", ";", "*"} |->
        CASE c = "(" -> "LEFT_PAREN"
          [] c = ")" -> "RIGHT_PAREN"
          [] c = "{" -> "LEFT_BRACE"
          [] c = "}" -> "RIGHT_BRACE"
          [] c = "," -> "COMMA"
          [] c = "." -> "DOT"
          [] c = "-" -> "MINUS"
          [] c = "+" -> "PLUS"
          [] c = ";" -> "SEMICOLON"
          [] c = "*" -> "STAR"]

OpTokenPair(w, s) == [with_equal |-> w, single |-> s]

OP_TOKENS ==
    [c \in {"!", "=", "<", ">"} |->
        CASE c = "!" -> OpTokenPair("BANG_EQUAL", "BANG")
          [] c = "=" -> OpTokenPair("EQUAL_EQUAL", "EQUAL")
          [] c = "<" -> OpTokenPair("LESS_EQUAL", "LESS")
          [] c = ">" -> OpTokenPair("BANG_EQUAL", "BANG")]

WS_CHARS == {" ", "\r", "\t"}

KEYWORDS ==
    [w \in {<<"a", "n", "d">>, <<"c", "l", "a", "s", "s">>, <<"e", "l", "s", "e">>,
            <<"f", "a", "l", "s", "e">>, <<"f", "u", "n">>, <<"f", "o", "r">>,
            <<"i", "f">>, <<"n", "i", "l">>, <<"o", "r">>,
            <<"p", "r", "i", "n", "t">>, <<"r", "e", "t", "u", "r", "n">>,
            <<"s", "u", "p", "e", "r">>, <<"t", "h", "i", "s">>,
            <<"t", "r", "u", "e">>, <<"v", "a", "r">>,
            <<"w", "h", "i", "l", "e">>} |->
        CASE w = <<"a", "n", "d">> -> "AND"
          [] w = <<"c", "l", "a", "s", "s">> -> "CLASS"
          [] w = <<"e", "l", "s", "e">> -> "ELSE"
          [] w = <<"f", "a", "l", "s", "e">> -> "FALSE"
          [] w = <<"f", "u", "n">> -> "FUN"
          [] w = <<"f", "o", "r">> -> "FOR"
          [] w = <<"i", "f">> -> "IF"
          [] w = <<"n", "i", "l">> -> "NIL"
          [] w = <<"o", "r">> -> "OR"
          [] w = <<"p", "r", "i", "n", "t">> -> "PRINT"
          [] w = <<"r", "e", "t", "u", "r", "n">> -> "RETURN"
          [] w = <<"s", "u", "p", "e", "r">> -> "SUPER"
          [] w = <<"t", "h", "i", "s">> -> "THIS"
          [] w = <<"t", "r", "u", "e">> -> "TRUE"
          [] w = <<"v", "a", "r">> -> "VAR"
          [] w = <<"w", "h", "i", "l", "e">> -> "WHILE"]

\* Token(type=..., lexeme=..., literal=..., line=...)
Token(type, lexeme, literal, ln) ==
    [type |-> type, lexeme |-> lexeme, literal |-> literal, line |-> ln]

(***************************************************************************)
(* float(text) for the texts _scan_number passes: a digit run, optionally  *)
(* followed by '.' and a second digit run.  The value is the decimal       *)
(* num / den with den the least power of ten, so that float("1.0") and     *)
(* float("01") both equal float("1"); for the digit counts within the      *)
(* bounds every such decimal is a distinct 64-bit float.                   *)
(***************************************************************************)
DigitVal(c) ==
    CASE c = "0" -> 0 [] c = "1" -> 1 [] c = "2" -> 2 [] c = "3" -> 3
      [] c = "4" -> 4 [] c = "5" -> 5 [] c = "6" -> 6 [] c = "7" -> 7
      [] c = "8" -> 8 [] c = "9" -> 9

RECURSIVE DecimalValue(_)
DecimalValue(ds) ==
    IF ds = <<>> THEN 0
    ELSE 10 * DecimalValue(SubSeq(ds, 1, Len(ds) - 1)) + DigitVal(ds[Len(ds)])

RECURSIVE Pow10(_)
Pow10(k) == IF k = 0 THEN 1 ELSE 10 * Pow10(k - 1)

RECURSIVE StripTrailingZeros(_)
StripTrailingZeros(ds) ==
    IF ds # <<>> /\ ds[Len(ds)] = "0"
    THEN StripTrailingZeros(SubSeq(ds, 1, Len(ds) - 1))
    ELSE ds

Float(text) ==
    LET dots == {i \in 1..Len(text) : text[i] = "."}
        dot == IF dots = {} THEN Len(text) + 1 ELSE CHOOSE i \in dots : TRUE
        whole == SubSeq(text, 1, dot - 1)
        frac == StripTrailingZeros(SubSeq(text, dot + 1, Len(text)))
    IN  [kind |-> "float",
         num |-> DecimalValue(whole) * Pow10(Len(frac)) + DecimalValue(frac),
         den |-> Pow10(Len(frac))]

(***************************************************************************)
(* ErrorHandler.  errors is what error() has reported, in order.           *)
(***************************************************************************)
\* error() that reports the diagnostic and leaves the flag as it was
ErrorHandlerErrorNoFlag(st, ln, message) ==
    IF st.raised THEN st
    ELSE [st EXCEPT !.errors = Append(@, [line |-> ln, message |-> message])]

ErrorHandlerError(st, ln, message) ==
    IF st.raised THEN st
    ELSE
    [st EXCEPT !.errors = Append(@, [line |-> ln, message |-> message]),
               !.had_error = TRUE]

(***************************************************************************)
(* Scanner.  st is the scanner object together with its error handler:     *)
(* [start, current, line, tokens, errors, had_error, raised].  Once raised  *)
(* is set no operation changes the state any more.                         *)
(***************************************************************************)
IsAtEnd(src, st) == st.current >= Len(src)

\* the state after _advance(); the character it returns is src[st.current + 1],
\* and reading it at or past the end of the text raises IndexError
Advance(src, st) ==
    IF st.raised THEN st
    ELSE IF st.current >= Len(src) THEN [st EXCEPT !.raised = TRUE]
    ELSE [st EXCEPT !.current = @ + 1]

\* _match(exp): the boolean it returns
MatchResult(src, st, exp) == ~(IsAtEnd(src, st) \/ src[st.current + 1] # exp)

\* _match that reports the match and leaves the cursor where it was
MatchNoAdvance(src, st, exp) == st

\* _match(exp): the state it leaves
Match(src, st, exp) ==
    IF ~st.raised /\ MatchResult(src, st, exp)
    THEN [st EXCEPT !.current = @ + 1]
    ELSE st

Peek(src, st) == IF IsAtEnd(src, st) THEN NUL ELSE src[st.current + 1]

\* _peek_next that looks at the next character instead of the one after it
PeekNextIsPeek(src, st) == Peek(src, st)

PeekNext(src, st) ==
    IF st.current + 1 >= Len(src) THEN NUL ELSE src[st.current + 2]

AddToken(src, st, type, literal) ==
    LET text == Slice(src, st.start, st.current)
    IN  IF st.raised THEN st
        ELSE [st EXCEPT !.tokens = Append(@, Token(type, text, literal, st.line))]

\* the while loop of a _scan_string that does not count embedded newlines
RECURSIVE StringLoopNoCount(_, _)
StringLoopNoCount(src, st) ==
    IF ~st.raised /\ Peek(src, st) # "\"" /\ ~IsAtEnd(src, st)
    THEN StringLoopNoCount(src, Advance(src, st))
    ELSE st

\* the while loop of _scan_string
RECURSIVE StringLoop(_, _)
StringLoop(src, st) ==
    IF ~st.raised /\ Peek(src, st) # "\"" /\ ~IsAtEnd(src, st)
    THEN StringLoop(src, Advance(src,
             IF Peek(src, st) = "\n" THEN [st EXCEPT !.line = @ + 1] ELSE st))
    ELSE st

\* the while loop of a _scan_string that lets a backslash escape the next character
RECURSIVE StringLoopEscapes(_, _)
StringLoopEscapes(src, st) ==
    IF ~st.raised /\ Peek(src, st) # "\"" /\ ~IsAtEnd(src, st)
    THEN StringLoopEscapes(src,
             IF Peek(src, st) = "\\" /\ ~IsAtEnd(src, Advance(src, st))
             THEN Advance(src, Advance(src, st))
             ELSE Advance(src,
                      IF Peek(src, st) = "\n" THEN [st EXCEPT !.line = @ + 1] ELSE st))
    ELSE st

\* _scan_string with escape processing
ScanStringEscapes(src, st) ==
    LET s1 == StringLoopEscapes(src, st)
        s2 == Advance(src, s1)
        value == Slice(src, s2.start + 1, s2.current - 1)
    IN  IF IsAtEnd(src, s1)
        THEN ErrorHandlerError(s1, s1.line, "Unterminated string.")
        ELSE AddToken(src, s2, "STRING", Str(value))

\* _scan_string reporting an unterminated string at the line of its opening quote
ScanStringReportsOpeningLine(src, st) ==
    LET s1 == StringLoop(src, st)
        s2 == Advance(src, s1)
        value == Slice(src, s2.start + 1, s2.current - 1)
    IN  IF IsAtEnd(src, s1)
        THEN ErrorHandlerError(s1, st.line, "Unterminated string.")
        ELSE AddToken(src, s2, "STRING", Str(value))

\* _scan_string that consumes a closing quote without looking for the end of input
ScanStringNoEndCheck(src, st) ==
    LET s1 == StringLoop(src, st)
        s2 == Advance(src, s1)
        value == Slice(src, s2.start + 1, s2.current - 1)
    IN  AddToken(src, s2, "STRING", Str(value))

\* _scan_string that passes no literal for an empty string
ScanStringEmptyIsNone(src, st) ==
    LET s1 == StringLoop(src, st)
        s2 == Advance(src, s1)
        value == Slice(src, s2.start + 1, s2.current - 1)
    IN  IF IsAtEnd(src, s1)
        THEN ErrorHandlerError(s1, s1.line, "Unterminated string.")
        ELSE AddToken(src, s2, "STRING", IF value = <<>> THEN None ELSE Str(value))

ScanString(src, st) ==
    LET s1 == StringLoop(src, st)
        s2 == Advance(src, s1)
        value == Slice(src, s2.start + 1, s2.current - 1)
    IN  IF IsAtEnd(src, s1)
        THEN ErrorHandlerError(s1, s1.line, "Unterminated string.")
        ELSE AddToken(src, s2, "STRING", Str(value))

\* the loops "while _is_ascii_digit(self._peek()): self._advance()"
RECURSIVE DigitLoop(_, _)
DigitLoop(src, st) ==
    IF ~st.raised /\ IsAsciiDigit(Peek(src, st))
    THEN DigitLoop(src, Advance(src, st))
    ELSE st

ScanNumber(src, st) ==
    LET s1 == DigitLoop(src, st)
        s2 == IF Peek(src, s1) = "." /\ IsAsciiDigit(PeekNext(src, s1))
              THEN DigitLoop(src, Advance(src, s1))
              ELSE s1
    IN  AddToken(src, s2, "NUMBER", Float(Slice(src, s2.start, s2.current)))

RECURSIVE IdentifierLoop(_, _)
IdentifierLoop(src, st) ==
    IF ~st.raised /\ IsAsciiAlphanum(Peek(src, st))
    THEN IdentifierLoop(src, Advance(src, st))
    ELSE st

ScanIdentifier(src, st) ==
    LET s1 == IdentifierLoop(src, st)
        text == Slice(src, s1.start, s1.current)
        type == IF text \in DOMAIN KEYWORDS THEN KEYWORDS[text] ELSE "IDENTIFIER"
    IN  AddToken(src, s1, type, None)

\* the loop that skips a comment
RECURSIVE CommentLoop(_, _)
CommentLoop(src, st) ==
    IF ~st.raised /\ Peek(src, st) # "\n" /\ ~IsAtEnd(src, st)
    THEN CommentLoop(src, Advance(src, st))
    ELSE st

\* the branch of _scan_token for c in OP_TOKENS
ScanOp(src, st, c) ==
    LET op_token == OP_TOKENS[c]
        s1 == Match(src, st, "=")
    IN  AddToken(src, s1,
                 IF MatchResult(src, st, "=") THEN op_token.with_equal
                                              ELSE op_token.single,
                 None)

\* a comment branch that also swallows the newline ending the comment
ScanSlashEatsNewline(src, st) ==
    IF MatchResult(src, st, "/")
    THEN LET s1 == CommentLoop(src, Match(src, st, "/"))
         IN  IF IsAtEnd(src, s1) THEN s1 ELSE Advance(src, s1)
    ELSE AddToken(src, st, "SLASH", None)

\* the branch of _scan_token for c == '/'
ScanSlash(src, st) ==
    IF MatchResult(src, st, "/")
    THEN CommentLoop(src, Match(src, st, "/"))
    ELSE AddToken(src, st, "SLASH", None)

\* _scan_token with a whitespace branch that counts a carriage return as a line
ScanTokenCrCountsLine(src, st) ==
    LET c == src[st.current + 1]
        s1 == Advance(src, st)
    IN  IF s1.raised THEN s1
        ELSE IF c \in DOMAIN SINGLE_CHAR_TOKENS
            THEN AddToken(src, s1, SINGLE_CHAR_TOKENS[c], None)
        ELSE IF c \in DOMAIN OP_TOKENS THEN ScanOp(src, s1, c)
        ELSE IF c = "/" THEN ScanSlash(src, s1)
        ELSE IF c \in WS_CHARS
            THEN (IF c = "\r" THEN [s1 EXCEPT !.line = @ + 1] ELSE s1)
        ELSE IF c = "\n" THEN [s1 EXCEPT !.line = @ + 1]
        ELSE IF c = "\"" THEN ScanString(src, s1)
        ELSE IF IsAsciiDigit(c) THEN ScanNumber(src, s1)
        ELSE IF IsAsciiAlpha(c) THEN ScanIdentifier(src, s1)
        ELSE ErrorHandlerError(s1, s1.line, "Unexpected character")

\* _scan_token, called with current < len(source)
ScanToken(src, st) ==
    LET c == src[st.current + 1]
        s1 == Advance(src, st)
    IN  IF s1.raised THEN s1
        ELSE IF c \in DOMAIN SINGLE_CHAR_TOKENS
            THEN AddToken(src, s1, SINGLE_CHAR_TOKENS[c], None)
        ELSE IF c \in DOMAIN OP_TOKENS THEN ScanOp(src, s1, c)
        ELSE IF c = "/" THEN ScanSlash(src, s1)
        ELSE IF c \in WS_CHARS THEN s1
        ELSE IF c = "\n" THEN [s1 EXCEPT !.line = @ + 1]
        ELSE IF c = "\"" THEN ScanString(src, s1)
        ELSE IF IsAsciiDigit(c) THEN ScanNumber(src, s1)
        ELSE IF IsAsciiAlpha(c) THEN ScanIdentifier(src, s1)
        ELSE ErrorHandlerError(s1, s1.line, "Unexpected character")

\* an iteration whose whitespace branch looks at the character without consuming it
ScanIterationWhitespaceStuck(src, st) ==
    IF src[st.current + 1] \in WS_CHARS
    THEN [st EXCEPT !.start = st.current]
    ELSE ScanToken(src, [st EXCEPT !.start = st.current])

\* an iteration that does not move start to the cursor
ScanIterationKeepsStart(src, st) == ScanToken(src, st)

\* one iteration of the loop of scan_tokens
ScanIteration(src, st) == ScanToken(src, [st EXCEPT !.start = st.current])

\* an EOF token stamped with the first line instead of the current one
EofTokenFirstLine(st) == Token("EOF", <<>>, None, 1)

\* the EOF token scan_tokens appends
EofToken(st) == Token("EOF", <<>>, None, st.line)

\* the while loop of scan_tokens
RECURSIVE ScanLoop(_, _)
ScanLoop(src, st) ==
    IF IsAtEnd(src, st) \/ st.raised
    THEN st
    ELSE ScanLoop(src, ScanIteration(src, st))

\* Scanner(source, error_handler)
NewScanner(src) ==
    [start |-> 0, current |-> 0, line |-> 1, tokens |-> <<>>,
     errors |-> <<>>, had_error |-> FALSE, raised |-> FALSE]

\* Scanner(src, ErrorHandler()).scan_tokens(): the list it returns; a call that
\* raises returns no list, which the empty sequence stands for
ScanTokens(src) ==
    LET st == ScanLoop(src, NewScanner(src))
    IN  IF st.raised THEN <<>> ELSE Append(st.tokens, EofToken(st))

(***************************************************************************)
(* The state machine.                                                      *)
(***************************************************************************)
\* the scanner object as a record
Self ==
    [start |-> start, current |-> current, line |-> line, tokens |-> tokens,
     errors |-> errors, had_error |-> had_error, raised |-> raised]

\* the fields of Scanner(src, ErrorHandler())
Constructed(src) ==
    /\ source = src
    /\ tokens = NewScanner(src).tokens
    /\ start = NewScanner(src).start
    /\ current = NewScanner(src).current
    /\ line = NewScanner(src).line
    /\ errors = NewScanner(src).errors
    /\ had_error = NewScanner(src).had_error
    /\ raised = NewScanner(src).raised

\* Scanner(source, ErrorHandler()) for a source text of the set S, used
\* directly and not through the driver
InitOver(S) ==
    /\ \E src \in S : Constructed(src)
    /\ pc = "idle"
    /\ calls = 0
    /\ returned = <<>>
    /\ main_mode = "scanner"
    /\ stdin = <<>>
    /\ read = 0
    /\ results = <<>>
    /\ sys_exit = <<>>

Init == InitOver(Strings(Alphabet, MaxLen))

\* scan_tokens() is called
CallScanTokens ==
    /\ main_mode = "scanner"
    /\ pc = "idle"
    /\ calls < MaxCalls
    /\ pc' = "scan"
    /\ UNCHANGED <<source, tokens, start, current, line, errors, had_error,
                   raised, calls, returned, driver>>

\* one iteration of the while loop: self._start = self._current; self._scan_token()
ScanStep ==
    /\ pc = "scan"
    /\ ~IsAtEnd(source, Self)
    /\ LET s == ScanIteration(source, Self)
       IN  /\ start' = s.start
           /\ current' = s.current
           /\ line' = s.line
           /\ tokens' = s.tokens
           /\ errors' = s.errors
           /\ had_error' = s.had_error
           /\ raised' = s.raised
           /\ pc' = IF s.raised THEN "raised" ELSE pc
    /\ UNCHANGED <<source, calls, returned, driver>>

\* scan_tokens returning the list without the EOF append
ReturnTokensNoEof ==
    /\ pc = "scan"
    /\ IsAtEnd(source, Self)
    /\ returned' = Append(returned, tokens)
    /\ calls' = calls + 1
    /\ pc' = "idle"
    /\ UNCHANGED <<source, tokens, start, current, line, errors, had_error,
                   raised, driver>>

\* the loop has ended: append EOF and return self._tokens
ReturnTokens ==
    /\ pc = "scan"
    /\ IsAtEnd(source, Self)
    /\ tokens' = Append(tokens, EofToken(Self))
    /\ returned' = Append(returned, tokens')
    /\ calls' = calls + 1
    /\ pc' = "idle"
    /\ UNCHANGED <<source, start, current, line, errors, had_error, raised,
                   driver>>

Next == CallScanTokens \/ ScanStep \/ ReturnTokens

Spec == Init /\ [][Next]_vars

\* the list object scan_tokens returned: it is self._tokens itself, not a copy
ReturnedList == tokens

(***************************************************************************)
(* Specifications over narrower alphabets, for longer source texts.        *)
(***************************************************************************)
InitOps == InitOver(Strings(OpAlphabet, MaxOpLen))
SpecOps == InitOps /\ [][Next]_vars

InitStr == InitOver(Strings(StrAlphabet, MaxStrLen))
SpecStr == InitStr /\ [][Next]_vars

InitNum == InitOver(Strings(NumAlphabet, MaxNumLen))
SpecNum == InitNum /\ [][Next]_vars

InitIdent == InitOver(Strings(IdentAlphabet, MaxIdentLen))
SpecIdent == InitIdent /\ [][Next]_vars

InitComment == InitOver(Strings(CommentAlphabet, MaxCommentLen))
SpecComment == InitComment /\ [][Next]_vars

InitWs == InitOver(Strings(WsAlphabet, MaxWsLen))
SpecWs == InitWs /\ [][Next]_vars

\* scan_tokens is synchronous and single-threaded: once it has been called its
\* loop keeps iterating and, when the loop has ended, it returns
InitLive == InitOver(Strings(LiveAlphabet, MaxLiveLen))
SpecLive ==
    InitLive /\ [][Next]_vars /\ WF_vars(ScanStep) /\ WF_vars(ReturnTokens)

(***************************************************************************)
(* Vocabulary of the properties.                                           *)
(***************************************************************************)
\* the scan loop is about to run an iteration
AtLead == pc = "scan" /\ current < Len(source)

\* the lead character of that iteration
Lead == source[current + 1]

\* the list the first scan_tokens call returned
FirstReturned == returned[1]

\* the tokens of a list that have the given kind
OfKind(list, kind) == {i \in 1..Len(list) : list[i].type = kind}

\* number of newline characters in a text
Newlines(text) == Cardinality({i \in 1..Len(text) : text[i] = "\n"})

OpChars == {"!", "=", "<", ">"}

(***************************************************************************)
(* C1.  The list returned by the first scan_tokens call on a fresh Scanner *)
(* ends with an EOF token, no other token of the list has kind EOF, and    *)
(* that token has empty lexeme, null literal and the final value of the    *)
(* line counter as its line.                                               *)
(***************************************************************************)
C1_EofLastAndOnly ==
    calls >= 1 =>
        LET n == Len(FirstReturned)
        IN  /\ n >= 1
            /\ FirstReturned[n].type = "EOF"
            /\ OfKind(FirstReturned, "EOF") = {n}
            /\ FirstReturned[n].lexeme = <<>>
            /\ FirstReturned[n].literal = None
            /\ FirstReturned[n].line = line

C1_Witness ==
    /\ calls = 1
    /\ Len(FirstReturned) >= 3
    /\ FirstReturned[Len(FirstReturned)].line = 2

(***************************************************************************)
(* C2.  Token lines in the returned list never decrease from the first     *)
(* token to the EOF token, and each is at least 1.                         *)
(***************************************************************************)
C2_LinesNonDecreasing ==
    calls >= 1 =>
        /\ \A i \in 1..Len(FirstReturned) : FirstReturned[i].line >= 1
        /\ \A i \in 1..(Len(FirstReturned) - 1) :
               FirstReturned[i].line <= FirstReturned[i + 1].line

C2_Witness ==
    /\ calls = 1
    /\ Len(FirstReturned) >= 3
    /\ FirstReturned[1].line = 1
    /\ FirstReturned[2].line = 2
    /\ FirstReturned[3].line = 2

(***************************************************************************)
(* C3.  Every token whose lexeme starts with an operator character has the *)
(* kind of that operator: '!' BANG, '!=' BANG_EQUAL, '=' EQUAL,            *)
(* '==' EQUAL_EQUAL, '<' LESS, '<=' LESS_EQUAL, '>' GREATER,               *)
(* '>=' GREATER_EQUAL; a lexeme starting with '>' is never BANG or         *)
(* BANG_EQUAL.                                                             *)
(***************************************************************************)
OperatorKind(lexeme) ==
    CASE lexeme = <<"!">> -> "BANG"
      [] lexeme = <<"!", "=">> -> "BANG_EQUAL"
      [] lexeme = <<"=">> -> "EQUAL"
      [] lexeme = <<"=", "=">> -> "EQUAL_EQUAL"
      [] lexeme = <<"<">> -> "LESS"
      [] lexeme = <<"<", "=">> -> "LESS_EQUAL"
      [] lexeme = <<">">> -> "GREATER"
      [] lexeme = <<">", "=">> -> "GREATER_EQUAL"
      [] OTHER -> "?"

C3_OperatorKinds ==
    \A i \in 1..Len(tokens) :
        (tokens[i].lexeme # <<>> /\ tokens[i].lexeme[1] \in OpChars) =>
            tokens[i].type = OperatorKind(tokens[i].lexeme)

(***************************************************************************)
(* C4.  Maximal munch.  An iteration whose lead character is one of        *)
(* ! = < > and whose next character is '=' consumes both characters and    *)
(* appends exactly one token, with the two characters as its lexeme;       *)
(* otherwise it consumes the lead character alone and appends exactly one  *)
(* token with the one-character lexeme.                                    *)
(***************************************************************************)
C4_Step ==
    (AtLead /\ Lead \in OpChars) =>
        LET two == current + 1 < Len(source) /\ source[current + 2] = "="
            n == IF two THEN 2 ELSE 1
        IN  /\ current' = current + n
            /\ Len(tokens') = Len(tokens) + 1
            /\ SubSeq(tokens', 1, Len(tokens)) = tokens
            /\ tokens'[Len(tokens')].lexeme = Slice(source, current, current + n)
            /\ line' = line
            /\ errors' = errors

C4_MaximalMunch == [][C4_Step]_vars

C4_Witness ==
    /\ pc = "scan"
    /\ Len(tokens) = 2
    /\ tokens[1].lexeme = <<"!", "=">>
    /\ tokens[2].lexeme = <<"=">>
    /\ current = 3

\* the positions after the cursor that hold a double quote
QuotesAhead == {j \in (current + 2)..Len(source) : source[j] = "\""}

\* the least element of a non-empty set of numbers
Least(S) == CHOOSE j \in S : \A k \in S : j <= k

\* the diagnostics of a list that carry the given message
WithMessage(list, message) == {i \in 1..Len(list) : list[i].message = message}

\* length of the run of characters of class S that starts at position i
RECURSIVE RunLength(_, _, _)
RunLength(src, i, S) ==
    IF i <= Len(src) /\ src[i] \in S THEN 1 + RunLength(src, i + 1, S) ELSE 0

\* tokens' is tokens with exactly one token appended
OneTokenAppended ==
    /\ Len(tokens') = Len(tokens) + 1
    /\ SubSeq(tokens', 1, Len(tokens)) = tokens

LastToken(list) == list[Len(list)]

(***************************************************************************)
(* C5.  An iteration that starts at a double quote which has a later       *)
(* double quote ends at the first such quote, whatever precedes it (a      *)
(* backslash included), and appends one STRING token whose lexeme runs     *)
(* from the opening to that closing quote and whose literal is the text    *)
(* strictly between the two.                                               *)
(***************************************************************************)
C5_Step ==
    (AtLead /\ Lead = "\"" /\ QuotesAhead # {}) =>
        LET close == Least(QuotesAhead)
            t == LastToken(tokens')
        IN  /\ current' = close
            /\ OneTokenAppended
            /\ t.type = "STRING"
            /\ t.lexeme = SubSeq(source, current + 1, close)
            /\ t.lexeme[1] = "\"" /\ t.lexeme[Len(t.lexeme)] = "\""
            /\ t.literal = Str(SubSeq(source, current + 2, close - 1))
            /\ errors' = errors

C5_StringLiteral == [][C5_Step]_vars

C5_Witness ==
    /\ pc = "scan"
    /\ Len(tokens) = 2
    /\ tokens[1].type = "STRING"
    /\ tokens[1].literal = Str(<<"o", "\\">>)
    /\ tokens[2].type = "IDENTIFIER"

(***************************************************************************)
(* C6.  An iteration that starts at a double quote with no later double    *)
(* quote appends no token, runs to the end of the input, and reports one   *)
(* "Unterminated string." diagnostic, the only one of the scan, at the     *)
(* line the counter has there: the opening line plus the newlines of the   *)
(* unterminated text.  The next step appends the EOF token and returns.    *)
(***************************************************************************)
C6_Step ==
    (AtLead /\ Lead = "\"" /\ QuotesAhead = {}) =>
        LET stop == line + Newlines(SubSeq(source, current + 2, Len(source)))
        IN  /\ tokens' = tokens
            /\ WithMessage(errors, "Unterminated string.") = {}
            /\ errors' = Append(errors,
                   [line |-> stop, message |-> "Unterminated string."])
            /\ line' = stop
            /\ current' = Len(source)
            /\ pc' = "scan"

C6_After ==
    (pc = "scan" /\ WithMessage(errors, "Unterminated string.") # {}) =>
        /\ tokens' = Append(tokens, Token("EOF", <<>>, None, line))
        /\ returned' = Append(returned, tokens')
        /\ errors' = errors
        /\ pc' = "idle"

C6_UnterminatedString == [][C6_Step /\ C6_After]_vars

C6_Witness ==
    /\ calls = 1
    /\ Len(FirstReturned) = 2
    /\ FirstReturned[2].line = 3
    /\ errors = <<[line |-> 3, message |-> "Unterminated string."]>>

(***************************************************************************)
(* C7.  An iteration whose lead character is none of the recognized ones   *)
(* reports one "Unexpected character" diagnostic at the current line,      *)
(* appends no token, consumes that character alone and leaves the scan     *)
(* running; the tokens of the whole scan are those of the text with a      *)
(* space in its place.  When the scan has returned, the diagnostics of     *)
(* this kind are as many as the unrecognized characters outside strings    *)
(* and comments.                                                           *)
(***************************************************************************)
Punctuation == {"(", ")", "{", "}", ",", ".", "-", "+", ";", "*"}

Recognized ==
    Punctuation \cup OpChars \cup {"/", " ", "\r", "\t", "\n", "\"", "_"}
        \cup Digits \cup AsciiLetters

\* unrecognized characters of src from position i on, read in the given mode
RECURSIVE UnrecognizedOutside(_, _, _)
UnrecognizedOutside(src, i, mode) ==
    IF i > Len(src) THEN 0
    ELSE CASE mode = "string" ->
                UnrecognizedOutside(src, i + 1,
                    IF src[i] = "\"" THEN "code" ELSE "string")
           [] mode = "comment" ->
                UnrecognizedOutside(src, i + 1,
                    IF src[i] = "\n" THEN "code" ELSE "comment")
           [] OTHER ->
                IF src[i] = "\"" THEN UnrecognizedOutside(src, i + 1, "string")
                ELSE IF src[i] = "/" /\ i < Len(src) /\ src[i + 1] = "/"
                    THEN UnrecognizedOutside(src, i + 2, "comment")
                ELSE (IF src[i] \in Recognized THEN 0 ELSE 1)
                         + UnrecognizedOutside(src, i + 1, "code")

C7_Step ==
    (AtLead /\ Lead \notin Recognized) =>
        /\ errors' = Append(errors,
               [line |-> line, message |-> "Unexpected character"])
        /\ tokens' = tokens
        /\ current' = current + 1
        /\ line' = line
        /\ pc' = "scan"
        /\ ScanTokens([source EXCEPT ![current + 1] = " "]) = ScanTokens(source)

C7_Count ==
    calls >= 1 =>
        Cardinality(WithMessage(errors, "Unexpected character"))
            = UnrecognizedOutside(source, 1, "code")

C7_UnexpectedCharacter == [][C7_Step]_vars /\ []C7_Count

C7_Witness ==
    /\ calls = 1
    /\ source = <<"1", "@", "1">>
    /\ Len(FirstReturned) = 3
    /\ errors = <<[line |-> 1, message |-> "Unexpected character"]>>

(***************************************************************************)
(* C8.  An iteration that starts at a digit appends one NUMBER token whose *)
(* lexeme is the maximal digit run, extended by '.' and a further maximal  *)
(* digit run only when a digit follows the '.'; a '.' left after the       *)
(* NUMBER is scanned by the next iteration as a DOT token.                 *)
(***************************************************************************)
C8_Step ==
    (AtLead /\ Lead \in Digits) =>
        LET whole == current + RunLength(source, current + 1, Digits)
            fraction == /\ whole + 2 <= Len(source)
                        /\ source[whole + 1] = "."
                        /\ source[whole + 2] \in Digits
            stop == IF fraction
                    THEN whole + 1 + RunLength(source, whole + 2, Digits)
                    ELSE whole
        IN  /\ current' = stop
            /\ OneTokenAppended
            /\ LastToken(tokens').type = "NUMBER"
            /\ LastToken(tokens').lexeme = Slice(source, current, stop)

C8_DotAfter ==
    (/\ AtLead /\ Lead = "."
     /\ tokens # <<>>
     /\ LastToken(tokens).type = "NUMBER"
     /\ LastToken(tokens).lexeme = Slice(source, start, current)) =>
        /\ tokens' = Append(tokens, Token("DOT", <<".">>, None, line))
        /\ current' = current + 1

C8_NumberLexeme == [][C8_Step /\ C8_DotAfter]_vars

C8_Witness ==
    /\ pc = "scan"
    /\ Len(tokens) = 3
    /\ tokens[1].type = "NUMBER" /\ tokens[1].lexeme = <<"1", ".", "2">>
    /\ tokens[2].type = "DOT"
    /\ tokens[3].type = "NUMBER" /\ tokens[3].lexeme = <<"1">>

(***************************************************************************)
(* C9.  An iteration that starts at a letter or '_' appends one token      *)
(* whose lexeme is the maximal run of letters, digits and underscores,     *)
(* whose literal is null, and whose kind is the keyword kind when the      *)
(* whole lexeme is one of the 16 reserved words and IDENTIFIER otherwise.  *)
(***************************************************************************)
ReservedWords ==
    << <<"AND", <<"a", "n", "d">> >>,
       <<"CLASS", <<"c", "l", "a", "s", "s">> >>,
       <<"ELSE", <<"e", "l", "s", "e">> >>,
       <<"FALSE", <<"f", "a", "l", "s", "e">> >>,
       <<"FUN", <<"f", "u", "n">> >>,
       <<"FOR", <<"f", "o", "r">> >>,
       <<"IF", <<"i", "f">> >>,
       <<"NIL", <<"n", "i", "l">> >>,
       <<"OR", <<"o", "r">> >>,
       <<"PRINT", <<"p", "r", "i", "n", "t">> >>,
       <<"RETURN", <<"r", "e", "t", "u", "r", "n">> >>,
       <<"SUPER", <<"s", "u", "p", "e", "r">> >>,
       <<"THIS", <<"t", "h", "i", "s">> >>,
       <<"TRUE", <<"t", "r", "u", "e">> >>,
       <<"VAR", <<"v", "a", "r">> >>,
       <<"WHILE", <<"w", "h", "i", "l", "e">> >> >>

WordKind(lexeme) ==
    LET hits == {i \in 1..Len(ReservedWords) : ReservedWords[i][2] = lexeme}
    IN  IF hits = {} THEN "IDENTIFIER"
        ELSE ReservedWords[CHOOSE i \in hits : TRUE][1]

C9_Step ==
    (AtLead /\ Lead \in AsciiLetters \cup {"_"}) =>
        LET n == RunLength(source, current + 1,
                     AsciiLetters \cup Digits \cup {"_"})
            lexeme == Slice(source, current, current + n)
        IN  /\ current' = current + n
            /\ tokens' = Append(tokens, Token(WordKind(lexeme), lexeme, None, line))

C9_IdentifierOrKeyword == [][C9_Step]_vars

C9_Witness ==
    /\ pc = "scan"
    /\ Len(tokens) = 1
    /\ tokens[1].type = "IDENTIFIER"
    /\ tokens[1].lexeme = <<"f", "o", "r", "1">>

(***************************************************************************)
(* C10.  An iteration that starts at '//' discards the characters up to,   *)
(* not including, the next newline or the end of input: no token, no       *)
(* diagnostic, no change of the line counter; the newline is scanned by    *)
(* the next iteration, which adds one to the line counter.  An iteration   *)
(* that starts at a '/' not followed by '/' appends one SLASH token.       *)
(***************************************************************************)
C10_Step ==
    (AtLead /\ Lead = "/") =>
        IF current + 2 <= Len(source) /\ source[current + 2] = "/"
        THEN LET ends == {j \in (current + 3)..Len(source) : source[j] = "\n"}
             IN  /\ current' = IF ends = {} THEN Len(source) ELSE Least(ends) - 1
                 /\ tokens' = tokens
                 /\ errors' = errors
                 /\ line' = line
        ELSE /\ tokens' = Append(tokens, Token("SLASH", <<"/">>, None, line))
             /\ current' = current + 1

C10_NewlineAfter ==
    (/\ AtLead /\ Lead = "\n"
     /\ current >= start + 2
     /\ source[start + 1] = "/" /\ source[start + 2] = "/") =>
        /\ line' = line + 1
        /\ current' = current + 1
        /\ tokens' = tokens
        /\ errors' = errors

C10_CommentSkipping == [][C10_Step /\ C10_NewlineAfter]_vars

C10_Witness ==
    /\ calls = 1
    /\ source = <<"/", "/", "\"", "\n", "1">>
    /\ Len(FirstReturned) = 2
    /\ FirstReturned[1].type = "NUMBER" /\ FirstReturned[1].line = 2
    /\ errors = <<>>

(***************************************************************************)
(* C11.  Whitespace insensitivity.                                         *)
(***************************************************************************)
\* src with the text w inserted after its first p characters
Insert(src, p, w) == SubSeq(src, 1, p) \o w \o SubSeq(src, p + 1, Len(src))

\* the iterations of the scan loop from st on: the span each consumed and
\* whether it appended a token
RECURSIVE IterationsFrom(_, _)
IterationsFrom(src, st) ==
    IF IsAtEnd(src, st) \/ st.raised THEN <<>>
    ELSE LET s == ScanIteration(src, st)
         IN  <<[start |-> s.start, stop |-> s.current,
                token |-> Len(s.tokens) > Len(st.tokens)]>>
                 \o IterationsFrom(src, s)

Iterations(src) == IterationsFrom(src, NewScanner(src))

\* the positions of src that are not strictly inside the span of a token:
\* between two consecutive tokens, before the first or after the last
BetweenTokens(src) ==
    LET its == Iterations(src)
    IN  {p \in 0..Len(src) :
            \A i \in 1..Len(its) :
                its[i].token => ~(its[i].start < p /\ p < its[i].stop)}

\* the positions between the two slashes that open a comment
InsideCommentOpener(src) ==
    LET its == Iterations(src)
    IN  {its[i].start + 1 : i \in {j \in 1..Len(its) :
            ~its[j].token /\ src[its[j].start + 1] = "/"}}

\* the non-empty whitespace texts of at most MaxInsert characters
Whitespace == Strings(WS_CHARS, MaxInsert) \ {<<>>}

\* the scan has returned for the first time and nothing was done since
FirstReturn == calls = 1 /\ pc = "idle"

(***************************************************************************)
(* C11 as claimed: whitespace inserted at any position between two         *)
(* consecutive tokens (or before the first, or after the last) leaves the  *)
(* kinds, lexemes, literals and lines of the scan as they were.            *)
(***************************************************************************)
C11_AnyGapPosition ==
    FirstReturn =>
        \A p \in BetweenTokens(source) : \A w \in Whitespace :
            ScanTokens(Insert(source, p, w)) = FirstReturned

(***************************************************************************)
(* C11 amended: the same, for every such position except the one between   *)
(* the two slashes that open a comment.                                    *)
(***************************************************************************)
C11_WhitespaceInsensitive ==
    FirstReturn =>
        \A p \in BetweenTokens(source) \ InsideCommentOpener(source) :
            \A w \in Whitespace :
                ScanTokens(Insert(source, p, w)) = FirstReturned

C11_Witness ==
    /\ FirstReturn
    /\ source = <<"1", ".", "o">>
    /\ BetweenTokens(source) = {0, 1, 2, 3}
    /\ ScanTokens(Insert(source, 1, <<"\t", "\r">>)) = FirstReturned
    /\ Len(FirstReturned) = 4

(***************************************************************************)
(* C12.  An iteration that appends a token appends one, whose lexeme is    *)
(* the non-empty slice source[start:current] of that iteration, and the    *)
(* iteration starts where the one before it ended, so token spans follow   *)
(* one another without overlap; an iteration that appends none consumed a  *)
(* whitespace character, a newline, a comment, an unrecognized character   *)
(* or an unterminated string.                                              *)
(***************************************************************************)
\* the spans of the iterations that appended a token, in order
TokenSpans(src) == SelectSeq(Iterations(src), LAMBDA it : it.token)

C12_Step ==
    AtLead =>
        LET skipped == Slice(source, current, current')
        IN  /\ start' = current
            /\ current' > current
            /\ current' <= Len(source)
            /\ IF tokens' # tokens
               THEN /\ OneTokenAppended
                    /\ LastToken(tokens').lexeme = skipped
               ELSE \/ Len(skipped) = 1 /\ Lead \in WS_CHARS \cup {"\n"}
                    \/ Len(skipped) = 1 /\ Lead \notin Recognized
                    \/ /\ Len(skipped) >= 2
                       /\ skipped[1] = "/" /\ skipped[2] = "/"
                       /\ \A i \in 1..Len(skipped) : skipped[i] # "\n"
                    \/ /\ Lead = "\""
                       /\ current' = Len(source)
                       /\ \A i \in 2..Len(skipped) : skipped[i] # "\""

C12_Spans ==
    FirstReturn =>
        LET spans == TokenSpans(source)
        IN  /\ Len(spans) = Len(FirstReturned) - 1
            /\ \A i \in 1..Len(spans) :
                   /\ spans[i].start < spans[i].stop
                   /\ FirstReturned[i].lexeme
                          = Slice(source, spans[i].start, spans[i].stop)
                   /\ i > 1 => spans[i - 1].stop <= spans[i].start

C12_LexemeSpans == [][C12_Step]_vars /\ []C12_Spans

C12_Witness ==
    /\ FirstReturn
    /\ source = <<"o", "@", "1">>
    /\ TokenSpans(source)
           = <<[start |-> 0, stop |-> 1, token |-> TRUE],
               [start |-> 2, stop |-> 3, token |-> TRUE]>>

(***************************************************************************)
(* C13.  Every token other than EOF carries the line on which its first    *)
(* character stands: 1 plus the newlines before the start of its span, a   *)
(* STRING token that spans several lines included.                         *)
(***************************************************************************)
C13_LineOfFirstCharacter ==
    FirstReturn =>
        LET spans == TokenSpans(source)
        IN  \A i \in 1..Len(spans) :
                FirstReturned[i].line
                    = 1 + Newlines(Slice(source, 0, spans[i].start))

(***************************************************************************)
(* C14.  The list the first scan_tokens call returned keeps the length and *)
(* contents it had when it was returned, whatever is done with the Scanner *)
(* afterwards, a second scan_tokens call included: one EOF token, last.    *)
(***************************************************************************)
C14_ReturnedListUnchanged ==
    calls >= 1 =>
        /\ ReturnedList = FirstReturned
        /\ OfKind(ReturnedList, "EOF") = {Len(ReturnedList)}

(***************************************************************************)
(* C15.  Whenever the scan loop is about to run an iteration, and when the *)
(* scan has ended, the line counter is 1 plus the number of newlines in    *)
(* source[0:current], wherever those newlines stood: alone, inside a       *)
(* string, terminated or not, or after a comment.                          *)
(***************************************************************************)
C15_LineCounter ==
    pc \in {"idle", "scan"} => line = 1 + Newlines(Slice(source, 0, current))

C15_Witness ==
    /\ FirstReturn
    /\ source = <<"\n", "\"", "\n">>
    /\ line = 3
    /\ FirstReturned = <<Token("EOF", <<>>, None, 3)>>

(***************************************************************************)
(* C16.  The cursor never decreases and every iteration of the scan loop   *)
(* moves it forward, so every scan_tokens call that has started reaches    *)
(* the end of the source text, appends EOF and returns.                    *)
(***************************************************************************)
C16_Step ==
    /\ current' >= current
    /\ AtLead => current' > current

C16_Returned ==
    /\ pc = "idle"
    /\ current = Len(source)
    /\ tokens # <<>>
    /\ LastToken(tokens).type = "EOF"

C16_TerminationByProgress == [][C16_Step]_vars /\ (pc = "scan" ~> C16_Returned)

C16_Witness ==
    /\ C16_Returned
    /\ calls = 1
    /\ source = <<"\"", "\n">>
    /\ current = 2

(***************************************************************************)
(* The driver: main, run_file, run_prompt and _run.  main picks the mode   *)
(* from the number of arguments; run_file scans the text of one file and   *)
(* run_prompt the lines of sys.stdin, one _run each.  stdin holds the      *)
(* texts the driver will pass to _run: the lines that next(sys.stdin)      *)
(* yields, or, for run_file, the one text that f.read() yields.            *)
(***************************************************************************)
MaxRunLen == 1
MaxPromptLines == 2
RunAlphabet == {"1", "@", "\"", "\n"}

\* the status run_file exits with after a scan that reported a diagnostic
EXIT_HAD_ERROR == 65
\* the status main exits with when given too many arguments
EXIT_USAGE == 64

\* the lines an iteration over a text stream yields: each ends with its
\* newline and has no other, except that the last may lack it when the
\* stream does not end with one; no line is empty
EndedLines == {Append(body, "\n") : body \in Strings(RunAlphabet \ {"\n"}, MaxRunLen)}
LastLines == EndedLines \cup (Strings(RunAlphabet \ {"\n"}, MaxRunLen) \ {<<>>})
StdinLines ==
    {<<>>} \cup
    UNION {{Append(ls, l) : ls \in [1..(n - 1) -> EndedLines], l \in LastLines} :
              n \in 1..MaxPromptLines}

\* python3 lox.py with too many arguments, with a script, or with none; no
\* Scanner exists until _run makes one
InitRun ==
    /\ \/ main_mode = "usage" /\ stdin = <<>>
       \/ main_mode = "file" /\ \E text \in Strings(RunAlphabet, MaxRunLen) : stdin = <<text>>
       \/ main_mode = "prompt" /\ stdin \in StdinLines
    /\ Constructed(<<>>)
    /\ pc = "main"
    /\ calls = 0
    /\ returned = <<>>
    /\ read = 0
    /\ results = <<>>
    /\ sys_exit = <<>>

\* the first three statements of _run(text): a new ErrorHandler, a new
\* Scanner over the text, and the call of scan_tokens
BeginRun(text) ==
    /\ source' = text
    /\ tokens' = NewScanner(text).tokens
    /\ start' = NewScanner(text).start
    /\ current' = NewScanner(text).current
    /\ line' = NewScanner(text).line
    /\ errors' = NewScanner(text).errors
    /\ had_error' = NewScanner(text).had_error
    /\ raised' = NewScanner(text).raised
    /\ calls' = 0
    /\ returned' = <<>>
    /\ pc' = "scan"

\* main with more than two arguments: usage message and exit
Usage ==
    /\ pc = "main"
    /\ main_mode = "usage"
    /\ sys_exit' = Append(sys_exit, EXIT_USAGE)
    /\ pc' = "exited"
    /\ UNCHANGED <<source, tokens, start, current, line, errors, had_error, raised,
                   calls, returned, main_mode, stdin, read, results>>

\* run_file up to the call of scan_tokens in _run(text)
RunFile ==
    /\ pc = "main"
    /\ main_mode = "file"
    /\ read = 0
    /\ read' = 1
    /\ BeginRun(stdin[1])
    /\ UNCHANGED <<main_mode, stdin, results, sys_exit>>

\* run_prompt that makes one ErrorHandler for all its lines
PromptReadSharedHandler ==
    /\ pc = "main"
    /\ main_mode = "prompt"
    /\ read < Len(stdin)
    /\ read' = read + 1
    /\ source' = stdin[read + 1]
    /\ tokens' = NewScanner(source').tokens
    /\ start' = NewScanner(source').start
    /\ current' = NewScanner(source').current
    /\ line' = NewScanner(source').line
    /\ raised' = NewScanner(source').raised
    /\ calls' = 0
    /\ returned' = <<>>
    /\ pc' = "scan"
    /\ UNCHANGED <<errors, had_error, main_mode, stdin, results, sys_exit>>

\* one turn of run_prompt's loop in which next(sys.stdin) yields a line, up
\* to the call of scan_tokens in _run(line)
PromptRead ==
    /\ pc = "main"
    /\ main_mode = "prompt"
    /\ read < Len(stdin)
    /\ read' = read + 1
    /\ BeginRun(stdin[read + 1])
    /\ UNCHANGED <<main_mode, stdin, results, sys_exit>>

\* the turn of run_prompt's loop in which next(sys.stdin) raises
\* StopIteration: the loop breaks and the program ends normally
PromptEof ==
    /\ pc = "main"
    /\ main_mode = "prompt"
    /\ read = Len(stdin)
    /\ pc' = "exited"
    /\ UNCHANGED <<source, tokens, start, current, line, errors, had_error, raised,
                   calls, returned, driver>>

\* _run returns error_handler.had_error; run_file exits with 65 if it is
\* true, run_prompt drops it and loops
RunReturn ==
    /\ pc = "idle"
    /\ main_mode \in {"file", "prompt"}
    /\ calls = 1
    /\ results' = Append(results, had_error)
    /\ IF main_mode = "file"
       THEN /\ sys_exit' = IF had_error THEN Append(sys_exit, EXIT_HAD_ERROR) ELSE sys_exit
            /\ pc' = "exited"
       ELSE /\ sys_exit' = sys_exit
            /\ pc' = "main"
    /\ UNCHANGED <<source, tokens, start, current, line, errors, had_error, raised,
                   calls, returned, main_mode, stdin, read>>

NextRun ==
    \/ Usage
    \/ RunFile
    \/ PromptRead
    \/ PromptEof
    \/ ScanStep
    \/ ReturnTokens
    \/ RunReturn

SpecRun == InitRun /\ [][NextRun]_vars

(***************************************************************************)
(* C17.  The cursors stay within the source text, 0 <= start <= current    *)
(* <= len(source), and no index past the end is ever read: the scan never  *)
(* raises, whatever the input ends in the middle of.                       *)
(***************************************************************************)
C17_CursorBounds ==
    /\ ~raised
    /\ pc # "raised"
    /\ 0 <= start
    /\ start <= current
    /\ current <= Len(source)

C17_Witness ==
    /\ FirstReturn
    /\ source = <<"1", ".", "\"">>
    /\ Len(FirstReturned) = 3
    /\ Len(errors) = 1

(***************************************************************************)
(* C18.  A token has a literal exactly when its kind is STRING or NUMBER.  *)
(***************************************************************************)
C18_LiteralKinds ==
    \A i \in 1..Len(tokens) :
        tokens[i].literal # None <=> tokens[i].type \in {"STRING", "NUMBER"}

C18_Witness ==
    /\ FirstReturn
    /\ source = <<"\"", "\"", "1">>
    /\ FirstReturned[1].literal = Str(<<>>)
    /\ FirstReturned[2].literal = Float(<<"1">>)
    /\ FirstReturned[3].literal = None

(***************************************************************************)
(* C19.  had_error is false on a new ErrorHandler, is true after every     *)
(* error() call and never goes back to false; when the scan has returned   *)
(* it is true exactly if the text has an unrecognized character outside    *)
(* strings and comments or an unterminated string; and the tokens of a     *)
(* scan are the same whatever the flag was when the scan began.            *)
(***************************************************************************)
\* src read from position i on in the given mode ends inside a string
RECURSIVE EndsInString(_, _, _)
EndsInString(src, i, mode) ==
    IF i > Len(src) THEN mode = "string"
    ELSE CASE mode = "string" ->
                EndsInString(src, i + 1, IF src[i] = "\"" THEN "code" ELSE "string")
           [] mode = "comment" ->
                EndsInString(src, i + 1, IF src[i] = "\n" THEN "code" ELSE "comment")
           [] OTHER ->
                IF src[i] = "\"" THEN EndsInString(src, i + 1, "string")
                ELSE IF src[i] = "/" /\ i < Len(src) /\ src[i + 1] = "/"
                    THEN EndsInString(src, i + 2, "comment")
                ELSE EndsInString(src, i + 1, "code")

\* the text has a malformed lexeme
Malformed(src) ==
    UnrecognizedOutside(src, 1, "code") > 0 \/ EndsInString(src, 1, "code")

C19_Created == (pc = "idle" /\ calls = 0) => ~had_error

C19_Flag == had_error <=> errors # <<>>

C19_Step ==
    /\ had_error => had_error'
    /\ errors' # errors => had_error'

C19_Completed ==
    calls >= 1 =>
        /\ had_error <=> Malformed(source)
        /\ LET flagged == ScanLoop(source,
                              [NewScanner(source) EXCEPT !.had_error = TRUE])
           IN  Append(flagged.tokens, EofToken(flagged)) = FirstReturned

C19_ErrorFlag ==
    [](C19_Created /\ C19_Flag /\ C19_Completed) /\ [][C19_Step]_vars

C19_Witness ==
    /\ FirstReturn
    /\ source = <<"1", "@", "\"">>
    /\ had_error
    /\ Len(errors) = 2
    /\ Len(FirstReturned) = 2

(***************************************************************************)
(* C20.  Every _run starts from a new ErrorHandler and a new Scanner: the  *)
(* scan of each text begins at cursor 0, line 1, with no tokens and no     *)
(* diagnostics, and what _run returns for a text depends on that text      *)
(* alone.  run_prompt never exits because of a diagnostic: it ends when    *)
(* its input ends, normally.  run_file exits with 65 exactly when the scan *)
(* of its text reported a diagnostic.                                      *)
(***************************************************************************)
C20_Begin ==
    (pc = "main" /\ pc' = "scan") =>
        /\ source' = stdin[read']
        /\ start' = 0
        /\ current' = 0
        /\ line' = 1
        /\ tokens' = <<>>
        /\ errors' = <<>>
        /\ ~had_error'

C20_Results ==
    /\ Len(results) <= Len(stdin)
    /\ \A i \in 1..Len(results) : results[i] <=> Malformed(stdin[i])

C20_Prompt ==
    main_mode = "prompt" =>
        /\ sys_exit = <<>>
        /\ pc = "exited" => Len(results) = Len(stdin)

C20_File ==
    (main_mode = "file" /\ pc = "exited") =>
        /\ had_error <=> errors # <<>>
        /\ sys_exit = IF errors # <<>> THEN <<EXIT_HAD_ERROR>> ELSE <<>>

C20_FreshStatePerText ==
    [](C20_Results /\ C20_Prompt /\ C20_File) /\ [][C20_Begin]_vars

\* a prompt session whose first line has a diagnostic and whose second has
\* none, ended by the end of its input
C20_Witness ==
    /\ main_mode = "prompt"
    /\ pc = "exited"
    /\ stdin = <<<<"@", "\n">>, <<"1", "\n">>>>
    /\ results = <<TRUE, FALSE>>
    /\ sys_exit = <<>>

====
